---- MODULE Spec2Model ----
(***************************************************************************)
(* Model of the pub_iterator_type! macro (src/lib.rs).                     *)
(*                                                                         *)
(* Compile time: each declaration site holds a token stream; the macro     *)
(* matches it against its two rules (without / with a `where` clause),     *)
(* binds the metavariables and transcribes the matching rule's template    *)
(* into two items (the tuple struct and its `impl Iterator`).  A stream    *)
(* that matches neither rule is rejected and emits nothing.                *)
(*                                                                         *)
(* Run time: a wrapper value built from a generated struct is driven       *)
(* through the generated `next` and `size_hint`, side by side with an      *)
(* identical copy of the backing producer driven directly.                 *)
(***************************************************************************)
EXTENDS Integers, Sequences, FiniteSets, TLC

VARIABLES
    decl,     \* site -> token stream handed to the macro
    pc,       \* site -> "pending" | "matched" | "done" | "rejected"
    bind,     \* site -> metavariable bindings of the rule that matched
    out,      \* site -> [err, items]: what the expansion produced
    inst,     \* <<>> or <<w>>: the live wrapper value, w = [site, self]
    ref,      \* the same backing producer, driven directly
    source,   \* the finite sequence the backing producer was built over
    yielded,  \* elements returned so far by the wrapper's next
    last,     \* "none" | "new" | "next" | "size_hint": last runtime call
    ret,      \* Option returned by the wrapper's last next
    refRet,   \* Option returned by the backing producer's own next
    hint,     \* pair returned by the wrapper's last size_hint
    refHint   \* pair returned by the backing producer's own size_hint

ctVars == <<decl, pc, bind, out>>
rtVars == <<inst, ref, source, yielded, last, ret, refRet, hint, refHint>>
vars == <<decl, pc, bind, out, inst, ref, source, yielded, last, ret, refRet,
          hint, refHint>>

----------------------------------------------------------------------------
(* Bounds *)

MaxParams == 1      \* generic parameters in a declaration: 0..MaxParams
MaxLen == 3         \* length of the backing producer's finite sequence
MaxElem == 2        \* elements are drawn from 0..MaxElem

Sites == {"s1", "s2"}

----------------------------------------------------------------------------
(* Tokens.  A token stream is a sequence of strings; delimiters are        *)
(* balanced, as the lexer guarantees for any macro input.                  *)

Opens == {"[", "(", "{"}
Closes == {"]", ")", "}"}
Punct == Opens \cup Closes \cup {"#", "=", "<", ">", ",", ":", "+", ";"}
Literals == {"\"An iterator.\""}
Keywords == {"where", "pub"}
EOF == "<eof>"

Tok(toks, i) == IF i \in 1..Len(toks) THEN toks[i] ELSE EOF

\* $x:ident accepts any identifier or keyword.
IsIdent(t) == t \notin Punct \cup Literals \cup {EOF}

\* A type starts with a path, never with a keyword.
IsTyStart(t) == IsIdent(t) /\ t \notin Keywords

\* Index of the delimiter closing the group opened before position j.
RECURSIVE CloseFrom(_, _, _)
CloseFrom(toks, j, depth) ==
    IF j > Len(toks) THEN 0
    ELSE IF toks[j] \in Opens THEN CloseFrom(toks, j + 1, depth + 1)
    ELSE IF toks[j] \in Closes
         THEN IF depth = 1 THEN j ELSE CloseFrom(toks, j + 1, depth - 1)
    ELSE CloseFrom(toks, j + 1, depth)

\* Index of the ">" closing the generic-argument list opened before j.
RECURSIVE AngleFrom(_, _, _)
AngleFrom(toks, j, depth) ==
    IF j > Len(toks) THEN 0
    ELSE IF toks[j] = "<" THEN AngleFrom(toks, j + 1, depth + 1)
    ELSE IF toks[j] = ">"
         THEN IF depth = 1 THEN j ELSE AngleFrom(toks, j + 1, depth - 1)
    ELSE AngleFrom(toks, j + 1, depth)

Range(s) == {s[k] : k \in 1..Len(s)}

----------------------------------------------------------------------------
(* The declarations handed to the macro.  A declaration is assembled from  *)
(* its parts; an optional part is <<>> (absent) or <<x>> (present).        *)

AttrBodies == {<<"doc", "=", "\"An iterator.\"">>, <<"derive", "(", "Clone", ")">>}
Names == {"Counter", "RepeatDefault"}
ParamNames == <<"T", "U", "V", "W">>
Backings == {<<"Range">>, <<"Repeat", "<", "T", ">">>}
WhereClauses == {<<>>, <<"T", ":", "Default", "+", "Clone">>}

RECURSIVE ParamList(_)
ParamList(n) ==
    IF n = 0 THEN <<>>
    ELSE IF n = 1 THEN <<ParamNames[1]>>
    ELSE ParamList(n - 1) \o <<",", ParamNames[n]>>

ParamLists == {ParamList(n) : n \in 0..MaxParams}

Some(x) == <<x>>
None == <<>>
Opt(S) == {None} \cup {Some(x) : x \in S}

Wrapped(pre, o, post) == IF o = None THEN <<>> ELSE pre \o o[1] \o post

\* #[a] v n [g] e b where w
Build(a, v, n, g, e, b, w) ==
    Wrapped(<<"#", "[">>, a, <<"]">>) \o v \o n \o Wrapped(<<"[">>, g, <<"]">>)
        \o e \o b \o Wrapped(<<"where">>, w, <<>>)

NoVis == <<>>
Eq == <<"=">>

\* Declarations of the two accepted shapes, by their parts.
WFParts ==
    [attr : AttrBodies, name : Names, params : ParamLists, backing : Backings,
     where : Opt(WhereClauses)]

BuildWF(p) ==
    Build(Some(p.attr), NoVis, <<p.name>>, Some(p.params), Eq, p.backing, p.where)

WellFormed == {BuildWF(p) : p \in WFParts}

\* The same declarations with one part missing, or a visibility marker added.
NoAttrDecls ==
    {Build(None, NoVis, <<p.name>>, Some(p.params), Eq, p.backing, p.where) :
        p \in WFParts}

MarkedDecls ==
    {Build(Some(p.attr), <<"pub">>, <<p.name>>, Some(p.params), Eq, p.backing, p.where) :
        p \in WFParts}

NoNameDecls ==
    {Build(Some(p.attr), NoVis, <<>>, Some(p.params), Eq, p.backing, p.where) :
        p \in WFParts}

NoParamsDecls ==
    {Build(Some(p.attr), NoVis, <<p.name>>, None, Eq, p.backing, p.where) :
        p \in WFParts}

NoEqDecls ==
    {Build(Some(p.attr), NoVis, <<p.name>>, Some(p.params), <<>>, p.backing, p.where) :
        p \in WFParts}

NoBackingDecls ==
    {Build(Some(p.attr), NoVis, <<p.name>>, Some(p.params), Eq, <<>>, p.where) :
        p \in WFParts}

Faulty ==
    NoAttrDecls \cup MarkedDecls \cup NoNameDecls \cup NoParamsDecls
        \cup NoEqDecls \cup NoBackingDecls

Declarations == WellFormed \cup Faulty

----------------------------------------------------------------------------
(* The matcher: the left-hand sides of the two macro rules.                *)

\* Faulty variant: the attribute is optional, as `$(#[$($attr:tt)*])*` would be.
MatchAttrOptional(toks) ==
    LET e == CloseFrom(toks, 3, 1) IN
    IF Tok(toks, 1) = "#" /\ Tok(toks, 2) = "[" /\ e # 0
    THEN [ok |-> TRUE, attr |-> SubSeq(toks, 3, e - 1), next |-> e + 1]
    ELSE [ok |-> TRUE, attr |-> <<>>, next |-> 1]

\* #[$($attr:tt)*]
MatchAttr(toks) ==
    LET e == CloseFrom(toks, 3, 1) IN
    IF Tok(toks, 1) = "#" /\ Tok(toks, 2) = "[" /\ e # 0
    THEN [ok |-> TRUE, attr |-> SubSeq(toks, 3, e - 1), next |-> e + 1]
    ELSE [ok |-> FALSE, attr |-> <<>>, next |-> 0]

\* $Name:ident
MatchName(toks, i) ==
    IF IsIdent(Tok(toks, i))
    THEN [ok |-> TRUE, Name |-> toks[i], next |-> i + 1]
    ELSE [ok |-> FALSE, Name |-> "", next |-> 0]

\* Faulty variant: `$($NameParam:tt)+`, at least one parameter token.
MatchNameParamPlus(toks, i) ==
    LET e == CloseFrom(toks, i + 1, 1) IN
    IF Tok(toks, i) = "[" /\ e > i + 1
    THEN [ok |-> TRUE, NameParam |-> SubSeq(toks, i + 1, e - 1), next |-> e + 1]
    ELSE [ok |-> FALSE, NameParam |-> <<>>, next |-> 0]

\* [ $($NameParam:tt)* ]
MatchNameParam(toks, i) ==
    LET e == CloseFrom(toks, i + 1, 1) IN
    IF Tok(toks, i) = "[" /\ e # 0
    THEN [ok |-> TRUE, NameParam |-> SubSeq(toks, i + 1, e - 1), next |-> e + 1]
    ELSE [ok |-> FALSE, NameParam |-> <<>>, next |-> 0]

\* Faulty variant: `$($From:tt)*` up to `where`, so the type may be empty.
MatchFromOptional(toks, i) ==
    LET e == IF Tok(toks, i + 1) = "<" THEN AngleFrom(toks, i + 2, 1) ELSE i IN
    IF IsTyStart(Tok(toks, i)) /\ e # 0
    THEN [ok |-> TRUE, From |-> SubSeq(toks, i, e), next |-> e + 1]
    ELSE [ok |-> TRUE, From |-> <<>>, next |-> i]

\* $From:ty -- a path, optionally followed by a generic-argument list.
MatchFrom(toks, i) ==
    LET e == IF Tok(toks, i + 1) = "<" THEN AngleFrom(toks, i + 2, 1) ELSE i IN
    IF IsTyStart(Tok(toks, i)) /\ e # 0
    THEN [ok |-> TRUE, From |-> SubSeq(toks, i, e), next |-> e + 1]
    ELSE [ok |-> FALSE, From |-> <<>>, next |-> 0]

NoMatch ==
    [arm |-> 0, attr |-> <<>>, Name |-> "", NameParam |-> <<>>, From |-> <<>>,
     w |-> <<>>, next |-> 0]

\* #[$($attr:tt)*] $Name:ident [ $($NameParam:tt)* ] = $From:ty
\* the part the two rules have in common; arm is set by the caller.
MatchHead(toks) ==
    LET a == MatchAttr(toks) IN
    IF ~a.ok THEN NoMatch ELSE
    LET n == MatchName(toks, a.next) IN
    IF ~n.ok THEN NoMatch ELSE
    LET p == MatchNameParam(toks, n.next) IN
    IF ~p.ok THEN NoMatch ELSE
    IF Tok(toks, p.next) # "=" THEN NoMatch ELSE
    LET f == MatchFrom(toks, p.next + 1) IN
    IF ~f.ok THEN NoMatch ELSE
    [arm |-> 1, attr |-> a.attr, Name |-> n.Name, NameParam |-> p.NameParam,
     From |-> f.From, w |-> <<>>, next |-> f.next]

\* First rule: nothing may follow the type.
MatchArm1(toks) ==
    LET h == MatchHead(toks) IN
    IF h.arm # 0 /\ h.next = Len(toks) + 1 THEN [h EXCEPT !.arm = 1] ELSE NoMatch

\* Second rule: the type is followed by `where $($w:tt)*`.
MatchArm2(toks) ==
    LET h == MatchHead(toks) IN
    IF h.arm # 0 /\ Tok(toks, h.next) = "where"
    THEN [h EXCEPT !.arm = 2, !.w = SubSeq(toks, h.next + 1, Len(toks))]
    ELSE NoMatch

\* macro_rules! tries the rules in order; the first that matches is used.
MacroMatch(toks) ==
    IF MatchArm1(toks).arm # 0 THEN MatchArm1(toks) ELSE MatchArm2(toks)

----------------------------------------------------------------------------
(* The transcriber: the right-hand sides of the two macro rules.           *)
(* Each rule emits two items: the tuple struct and its Iterator impl.      *)

\* Faulty variant: the field is declared `pub $From`.
StructItem1PubField(b) ==
    [kind |-> "struct", attr |-> b.attr, vis |-> "pub", name |-> b.Name,
     generics |-> b.NameParam,
     fields |-> <<[name |-> "0", vis |-> "pub", ty |-> b.From]>>,
     hasWhere |-> FALSE, where |-> <<>>]

\* #[$($attr)*] pub struct $Name < $($NameParam)* > ( $From );
StructItem1(b) ==
    [kind |-> "struct", attr |-> b.attr, vis |-> "pub", name |-> b.Name,
     generics |-> b.NameParam,
     fields |-> <<[name |-> "0", vis |-> "private", ty |-> b.From]>>,
     hasWhere |-> FALSE, where |-> <<>>]

\* impl< $($NameParam)* > Iterator for $Name < $($NameParam)* > { ... }
ImplItem1(b) ==
    [kind |-> "impl", generics |-> b.NameParam, trait |-> "Iterator",
     forName |-> b.Name, forArgs |-> b.NameParam,
     hasWhere |-> FALSE, where |-> <<>>,
     Item |-> <<"<">> \o b.From \o <<"as", "Iterator", ">", "::", "Item">>,
     methods |-> <<"next", "size_hint">>]

\* Faulty variant: the struct is emitted without `pub`.
StructItem2Private(b) ==
    [kind |-> "struct", attr |-> b.attr, vis |-> "private", name |-> b.Name,
     generics |-> b.NameParam,
     fields |-> <<[name |-> "0", vis |-> "private", ty |-> b.From]>>,
     hasWhere |-> TRUE, where |-> b.w]

\* #[$($attr)*] pub struct $Name < $($NameParam)* > ( $From ) where $($w)* ;
StructItem2(b) ==
    [kind |-> "struct", attr |-> b.attr, vis |-> "pub", name |-> b.Name,
     generics |-> b.NameParam,
     fields |-> <<[name |-> "0", vis |-> "private", ty |-> b.From]>>,
     hasWhere |-> TRUE, where |-> b.w]

\* Faulty variant: the impl of the second rule loses its `where` clause.
ImplItem2NoWhere(b) ==
    [kind |-> "impl", generics |-> b.NameParam, trait |-> "Iterator",
     forName |-> b.Name, forArgs |-> b.NameParam,
     hasWhere |-> FALSE, where |-> <<>>,
     Item |-> <<"<">> \o b.From \o <<"as", "Iterator", ">", "::", "Item">>,
     methods |-> <<"next", "size_hint">>]

\* Faulty variant: `type Item = $From;`, the producer instead of its element.
ImplItem2WrongItem(b) ==
    [kind |-> "impl", generics |-> b.NameParam, trait |-> "Iterator",
     forName |-> b.Name, forArgs |-> b.NameParam,
     hasWhere |-> TRUE, where |-> b.w,
     Item |-> b.From,
     methods |-> <<"next", "size_hint">>]

\* impl< $($NameParam)* > Iterator for $Name < $($NameParam)* > where $($w)* { ... }
ImplItem2(b) ==
    [kind |-> "impl", generics |-> b.NameParam, trait |-> "Iterator",
     forName |-> b.Name, forArgs |-> b.NameParam,
     hasWhere |-> TRUE, where |-> b.w,
     Item |-> <<"<">> \o b.From \o <<"as", "Iterator", ">", "::", "Item">>,
     methods |-> <<"next", "size_hint">>]

Transcribe(b) ==
    IF b.arm = 1 THEN <<StructItem1(b), ImplItem1(b)>>
    ELSE <<StructItem2(b), ImplItem2(b)>>

NoOutput == [err |-> "none", items |-> <<>>]
Malformed == [err |-> "MalformedDeclaration", items |-> <<>>]
Expanded(items) == [err |-> "", items |-> items]

\* Faulty variant: the bindings live in one buffer shared by all expansions,
\* so another expansion in flight overwrites them.
BindingsShared(i) ==
    LET others == {j \in Sites \ {i} : pc[j] \in {"matched", "done"}} IN
    IF others = {} THEN bind[i] ELSE bind[CHOOSE j \in others : TRUE]

\* The bindings a site's transcription substitutes: its own.
Bindings(i) == bind[i]

----------------------------------------------------------------------------
(* Compile-time actions, one expansion per declaration site.               *)

\* One of the two rules matches: its metavariables are bound.
Match(i) ==
    /\ pc[i] = "pending"
    /\ MacroMatch(decl[i]).arm # 0
    /\ bind' = [bind EXCEPT ![i] = MacroMatch(decl[i])]
    /\ pc' = [pc EXCEPT ![i] = "matched"]
    /\ UNCHANGED <<decl, out>>
    /\ UNCHANGED rtVars

\* No rule matches: the invocation is an error and nothing is emitted.
Reject(i) ==
    /\ pc[i] = "pending"
    /\ MacroMatch(decl[i]).arm = 0
    /\ out' = [out EXCEPT ![i] = Malformed]
    /\ pc' = [pc EXCEPT ![i] = "rejected"]
    /\ UNCHANGED <<decl, bind>>
    /\ UNCHANGED rtVars

\* The matched rule's template is transcribed with the site's bindings.
Emit(i) ==
    /\ pc[i] = "matched"
    /\ out' = [out EXCEPT ![i] = Expanded(Transcribe(Bindings(i)))]
    /\ pc' = [pc EXCEPT ![i] = "done"]
    /\ UNCHANGED <<decl, bind>>
    /\ UNCHANGED rtVars

NoInstance == <<>>
NoProducer == [items |-> <<>>, kind |-> "exact"]

RuntimeIdle ==
    /\ inst = NoInstance
    /\ ref = NoProducer
    /\ source = <<>>
    /\ yielded = <<>>
    /\ last = "none"
    /\ ret = None
    /\ refRet = None
    /\ hint = <<0, None>>
    /\ refHint = <<0, None>>

Init ==
    /\ decl \in [Sites -> Declarations]
    /\ pc = [i \in Sites |-> "pending"]
    /\ bind = [i \in Sites |-> NoMatch]
    /\ out = [i \in Sites |-> NoOutput]
    /\ RuntimeIdle

MatchStep == \E i \in Sites : Match(i)
RejectStep == \E i \in Sites : Reject(i)
EmitStep == \E i \in Sites : Emit(i)

Next == MatchStep \/ RejectStep \/ EmitStep

Spec == Init /\ [][Next]_vars

----------------------------------------------------------------------------
(* Run time.  The backing producer is any Iterator over a finite sequence: *)
(* next pops the front element, and reports None once the sequence is      *)
(* spent; size_hint is exact, or the trait's default (0, None).            *)

HintKinds == {"exact", "default"}

RECURSIVE SeqsUpTo(_, _)
SeqsUpTo(S, n) ==
    IF n = 0 THEN {<<>>}
    ELSE LET shorter == SeqsUpTo(S, n - 1) IN
         shorter \cup {Append(q, x) : q \in shorter, x \in S}

Producers ==
    [items : SeqsUpTo(0..MaxElem, MaxLen), kind : HintKinds]

\* <$From as Iterator>::next
BackingNext(p) ==
    IF p.items = <<>>
    THEN [ret |-> None, state |-> p]
    ELSE [ret |-> Some(Head(p.items)), state |-> [p EXCEPT !.items = Tail(p.items)]]

\* <$From as Iterator>::size_hint
BackingSizeHint(p) ==
    IF p.kind = "exact"
    THEN <<Len(p.items), Some(Len(p.items))>>
    ELSE <<0, None>>

\* First rule:  fn next(&mut self) -> Option<Self::Item> { self.0.next() }
next_1(self) ==
    LET r == BackingNext(self[1]) IN [ret |-> r.ret, self |-> <<r.state>>]

\* Faulty variant: size_hint is not overridden, so the trait's default answers.
size_hint_1_default(self) == <<0, None>>

\* First rule:  fn size_hint(&self) -> (usize, Option<usize>) { self.0.size_hint() }
size_hint_1(self) == BackingSizeHint(self[1])

\* Faulty variant: the body advances the backing producer twice.
next_2_skip(self) ==
    LET r == BackingNext(BackingNext(self[1]).state) IN
    [ret |-> r.ret, self |-> <<r.state>>]

\* Second rule:  fn next(&mut self) -> Option<Self::Item> { self.0.next() }
next_2(self) ==
    LET r == BackingNext(self[1]) IN [ret |-> r.ret, self |-> <<r.state>>]

\* Second rule:  fn size_hint(&self) -> (usize, Option<usize>) { self.0.size_hint() }
size_hint_2(self) == BackingSizeHint(self[1])

\* The rule whose impl a site's wrapper type carries.
ArmOf(i) == bind[i].arm

\* $Name(p): a wrapper value is built inside the defining module.
New(i, p) ==
    /\ pc[i] = "done"
    /\ inst = NoInstance
    /\ inst' = <<[site |-> i, self |-> <<p>>]>>
    /\ ref' = p
    /\ source' = p.items
    /\ last' = "new"
    /\ UNCHANGED <<yielded, ret, refRet, hint, refHint>>
    /\ UNCHANGED ctVars

\* A consumer calls next on the wrapper; the same call is made on the
\* backing producer's twin.
CallNext ==
    /\ inst # NoInstance
    /\ LET w == inst[1]
           r == IF ArmOf(w.site) = 1 THEN next_1(w.self) ELSE next_2(w.self)
           d == BackingNext(ref)
       IN /\ inst' = <<[w EXCEPT !.self = r.self]>>
          /\ ret' = r.ret
          /\ yielded' = IF r.ret = None THEN yielded ELSE Append(yielded, r.ret[1])
          /\ ref' = d.state
          /\ refRet' = d.ret
    /\ last' = "next"
    /\ UNCHANGED <<source, hint, refHint>>
    /\ UNCHANGED ctVars

\* A consumer calls size_hint on the wrapper, and on the twin.
CallSizeHint ==
    /\ inst # NoInstance
    /\ LET w == inst[1] IN
       hint' = IF ArmOf(w.site) = 1 THEN size_hint_1(w.self) ELSE size_hint_2(w.self)
    /\ refHint' = BackingSizeHint(ref)
    /\ last' = "size_hint"
    /\ UNCHANGED <<inst, ref, source, yielded, ret, refRet>>
    /\ UNCHANGED ctVars

NewStep == \E i \in Sites, p \in Producers : New(i, p)

\* Declarations the run-time specification expands: one per rule, and one
\* that is rejected.
RunDecls ==
    {Build(Some(<<"doc", "=", "\"An iterator.\"">>), NoVis, <<"Counter">>,
           Some(<<>>), Eq, <<"Range">>, None),
     Build(Some(<<"doc", "=", "\"An iterator.\"">>), NoVis, <<"RepeatDefault">>,
           Some(<<"T">>), Eq, <<"Repeat", "<", "T", ">">>,
           Some(<<"T", ":", "Default", "+", "Clone">>)),
     Build(Some(<<"doc", "=", "\"An iterator.\"">>), NoVis, <<"Counter">>,
           Some(<<>>), Eq, <<>>, None)}

InitRun ==
    /\ decl \in [Sites -> RunDecls]
    /\ pc = [i \in Sites |-> "pending"]
    /\ bind = [i \in Sites |-> NoMatch]
    /\ out = [i \in Sites |-> NoOutput]
    /\ RuntimeIdle

NextRun == MatchStep \/ RejectStep \/ EmitStep \/ NewStep \/ CallNext \/ CallSizeHint

SpecRun == InitRun /\ [][NextRun]_vars

----------------------------------------------------------------------------
(* Properties.                                                             *)

Finished(i) == pc[i] \in {"done", "rejected"}
StructOf(i) == out[i].items[1]
ImplOf(i) == out[i].items[2]

\* The parts a well-formed declaration was assembled from.
WFIndex == {<<BuildWF(p), p>> : p \in WFParts}
PartsOf(toks) == (CHOOSE q \in WFIndex : q[1] = toks)[2]

\* What code outside the defining module can name on a wrapper value:
\* its public fields and the methods of its Iterator impl.
ReachableOutside(items) ==
    {items[1].fields[k].name :
        k \in {k \in 1..Len(items[1].fields) : items[1].fields[k].vis = "pub"}}
    \cup Range(items[2].methods)

\* C1: driving a generated wrapper with next returns the backing producer's
\* elements one per call, in order, unchanged, none skipped or repeated, and
\* None once they are spent, exactly as the backing producer's own next does
\* (whichever rule generated the wrapper).
C1_NextDelegates ==
    inst # NoInstance =>
        /\ ret = refRet
        /\ inst[1].self = <<ref>>
        /\ yielded \o ref.items = source
        /\ (last = "next" /\ ret = None) => yielded = source
        /\ (last = "next" /\ ret # None) => ret = Some(yielded[Len(yielded)])

C1_Witness ==
    /\ inst # NoInstance
    /\ ArmOf(inst[1].site) = 2
    /\ source = <<0, 1, 2>>
    /\ yielded = source
    /\ last = "next"
    /\ ret = None

\* C2: whenever size_hint is called on a generated wrapper, it returns the
\* pair the backing producer's size_hint returns in that same state.
C2_SizeHintDelegates ==
    (inst # NoInstance /\ last = "size_hint") =>
        /\ hint = refHint
        /\ hint = BackingSizeHint(inst[1].self[1])

C2_Witness ==
    /\ inst # NoInstance
    /\ ArmOf(inst[1].site) = 1
    /\ last = "size_hint"
    /\ Len(source) = 3
    /\ Len(yielded) = 1
    /\ hint = <<2, Some(2)>>

\* C3: every generated struct has exactly one field, of the backing type the
\* declaration names, and that field is private: from outside the module a
\* wrapper exposes next and size_hint only.
C3_FieldPrivate ==
    \A i \in Sites : pc[i] = "done" =>
        /\ decl[i] \in WellFormed
        /\ StructOf(i).kind = "struct"
        /\ Len(StructOf(i).fields) = 1
        /\ StructOf(i).fields[1].ty = PartsOf(decl[i]).backing
        /\ StructOf(i).fields[1].vis = "private"
        /\ ReachableOutside(out[i].items) = {"next", "size_hint"}

C3_Witness ==
    \E i \in Sites :
        /\ pc[i] = "done"
        /\ bind[i].arm = 1
        /\ StructOf(i).fields = <<[name |-> "0", vis |-> "private",
                                   ty |-> <<"Repeat", "<", "T", ">">>]>>

\* C4: a declaration with a where clause expands, and both the struct and
\* the impl carry that clause and the generic parameters verbatim.
C4_ConstraintVerbatim ==
    \A i \in Sites :
        (Finished(i) /\ decl[i] \in WellFormed /\ PartsOf(decl[i]).where # None) =>
            LET p == PartsOf(decl[i]) IN
            /\ pc[i] = "done"
            /\ out[i].err = ""
            /\ StructOf(i).hasWhere /\ StructOf(i).where = p.where[1]
            /\ ImplOf(i).hasWhere /\ ImplOf(i).where = p.where[1]
            /\ StructOf(i).generics = p.params
            /\ ImplOf(i).generics = p.params
            /\ ImplOf(i).forArgs = p.params

C4_Witness ==
    \E i \in Sites :
        /\ pc[i] = "done"
        /\ decl[i] \in WellFormed
        /\ PartsOf(decl[i]).params = <<"T">>
        /\ ImplOf(i).where = <<"T", ":", "Default", "+", "Clone">>
        /\ StructOf(i).where = <<"T", ":", "Default", "+", "Clone">>

\* C5: a declaration without a where clause and with an empty parameter list
\* expands to a struct of that name with no generic parameters whose only
\* field has the backing type, and neither item carries a where clause.
C5_NoConstraintEmptyParams ==
    \A i \in Sites :
        (Finished(i) /\ decl[i] \in WellFormed /\ PartsOf(decl[i]).where = None
            /\ PartsOf(decl[i]).params = <<>>) =>
            LET p == PartsOf(decl[i]) IN
            /\ pc[i] = "done"
            /\ out[i].err = ""
            /\ Len(out[i].items) = 2
            /\ StructOf(i).name = p.name /\ ImplOf(i).forName = p.name
            /\ StructOf(i).generics = <<>>
            /\ ImplOf(i).generics = <<>> /\ ImplOf(i).forArgs = <<>>
            /\ Len(StructOf(i).fields) = 1
            /\ StructOf(i).fields[1].ty = p.backing
            /\ ~StructOf(i).hasWhere /\ StructOf(i).where = <<>>
            /\ ~ImplOf(i).hasWhere /\ ImplOf(i).where = <<>>

C5_Witness ==
    \E i \in Sites :
        /\ pc[i] = "done"
        /\ decl[i] = <<"#", "[", "doc", "=", "\"An iterator.\"", "]", "Counter",
                       "[", "]", "=", "Range">>
        /\ StructOf(i).name = "Counter"
        /\ StructOf(i).generics = <<>>

\* C6: a declaration with nothing where the backing type belongs matches
\* neither rule: it is never bound, it is rejected as MalformedDeclaration,
\* and nothing is emitted for it.
C6_MissingBackingRejected ==
    \A i \in Sites : decl[i] \in NoBackingDecls =>
        /\ pc[i] \in {"pending", "rejected"}
        /\ out[i].items = <<>>
        /\ Finished(i) => out[i] = Malformed

C6_Witness ==
    \E i \in Sites :
        /\ pc[i] = "rejected"
        /\ out[i] = Malformed
        /\ decl[i] = <<"#", "[", "doc", "=", "\"An iterator.\"", "]", "Counter",
                       "[", "T", "]", "=">>

\* C7: a declaration without the attribute is rejected by both rules and
\* emits nothing, however well formed the rest is; an attribute that is
\* present is copied verbatim onto the generated struct.
C7_MetadataMandatory ==
    \A i \in Sites :
        /\ decl[i] \in NoAttrDecls =>
            /\ pc[i] \in {"pending", "rejected"}
            /\ out[i].items = <<>>
            /\ Finished(i) => out[i] = Malformed
        /\ (pc[i] = "done" /\ decl[i] \in WellFormed) =>
            StructOf(i).attr = PartsOf(decl[i]).attr

C7_Witness ==
    \E i \in Sites, j \in Sites :
        /\ pc[i] = "rejected"
        /\ out[i] = Malformed
        /\ decl[i] = <<"RepeatDefault", "[", "T", "]", "=", "Repeat", "<", "T", ">",
                       "where", "T", ":", "Default", "+", "Clone">>
        /\ pc[j] = "done"
        /\ StructOf(j).attr = <<"derive", "(", "Clone", ")">>

\* C8: in every generated impl, Item is <F as Iterator>::Item where F is the
\* very type of the struct's field, the backing type of the declaration.
C8_ItemIsBackingItem ==
    \A i \in Sites : pc[i] = "done" =>
        /\ ImplOf(i).Item =
               <<"<">> \o StructOf(i).fields[1].ty \o <<"as", "Iterator", ">", "::", "Item">>
        /\ decl[i] \in WellFormed
        /\ StructOf(i).fields[1].ty = PartsOf(decl[i]).backing

C8_Witness ==
    \E i \in Sites :
        /\ pc[i] = "done"
        /\ bind[i].arm = 2
        /\ ImplOf(i).Item =
               <<"<", "Repeat", "<", "T", ">", "as", "Iterator", ">", "::", "Item">>

\* What expanding a declaration on its own yields.
ExpandAlone(toks) ==
    IF MacroMatch(toks).arm = 0 THEN Malformed
    ELSE Expanded(Transcribe(MacroMatch(toks)))

\* C9: whatever the other site holds and however the two expansions are
\* ordered or interleaved, a site's result is the one its declaration yields
\* when expanded alone; a rejection at one site leaves the other's artifact
\* as it is.
C9_Independent ==
    \A i \in Sites :
        /\ Finished(i) => out[i] = ExpandAlone(decl[i])
        /\ ~Finished(i) => out[i] = NoOutput

C9_Witness ==
    /\ pc["s1"] = "done"
    /\ pc["s2"] = "done"
    /\ bind["s1"].arm = 1
    /\ bind["s2"].arm = 2
    /\ bind["s1"].Name # bind["s2"].Name
    /\ out["s1"] # out["s2"]

\* A visibility marker in the invocation.
MarkedPublic(toks) == "pub" \in Range(toks)

\* C10 as stated: a declaration that is not marked public yields a struct
\* that is not public.
C10_Original ==
    \A i \in Sites :
        (pc[i] = "done" /\ ~MarkedPublic(decl[i])) => StructOf(i).vis # "pub"

\* C10 amended: every generated struct is `pub`, and no accepted declaration
\* carries a visibility marker: the invocation cannot choose the visibility.
C10_AlwaysPublic ==
    \A i \in Sites : pc[i] = "done" =>
        /\ StructOf(i).vis = "pub"
        /\ ~MarkedPublic(decl[i])

C10_Witness ==
    \E i \in Sites :
        /\ pc[i] = "done"
        /\ bind[i].arm = 2
        /\ ~MarkedPublic(decl[i])
        /\ StructOf(i).vis = "pub"

====
